---- MODULE Spec2Model ----
(***************************************************************************)
(* Customer 360 ETL pipeline (etl_customer360.py).                         *)
(*                                                                         *)
(* Text is modelled as a sequence of one-character strings, so that        *)
(* strip(), lower() and the UUID regular expression are computed on the    *)
(* characters.  A missing value (NaN / pd.NA / None) of a text column is   *)
(* NA, a numeric missing value is NaN, a missing instant is NaT.           *)
(* Instants are positive integers, amounts and page-view counts integers.  *)
(***************************************************************************)
EXTENDS Integers, Sequences, FiniteSets, TLC

\* ------------------------------------------------------------------ bounds
MaxPad == 1
MaxLeads == 3
MaxLines == 2
MaxTx == 2
MaxRows == 2

\* ------------------------------------------------------------ missing values
NA == <<"NA">>
NaN == -1000000
NaT == -1

isna(x) == x = NA

\* ------------------------------------------------------------------- text
Rep(c, n) == [i \in 1..n |-> c]

Whitespace == {" ", "\t", "\n"}

RECURSIVE lstrip(_)
lstrip(s) ==
    IF s # <<>> /\ Head(s) \in Whitespace THEN lstrip(Tail(s)) ELSE s

RECURSIVE rstrip(_)
rstrip(s) ==
    IF s # <<>> /\ s[Len(s)] \in Whitespace
    THEN rstrip(SubSeq(s, 1, Len(s) - 1))
    ELSE s

strip(s) == rstrip(lstrip(s))

UpperChars ==
    <<"A", "B", "C", "D", "E", "F", "G", "H", "I", "J", "K", "L", "M",
      "N", "O", "P", "Q", "R", "S", "T", "U", "V", "W", "X", "Y", "Z">>

LowerChars ==
    <<"a", "b", "c", "d", "e", "f", "g", "h", "i", "j", "k", "l", "m",
      "n", "o", "p", "q", "r", "s", "t", "u", "v", "w", "x", "y", "z">>

lowerChar(c) ==
    IF \E i \in DOMAIN UpperChars : UpperChars[i] = c
    THEN LowerChars[CHOOSE i \in DOMAIN UpperChars : UpperChars[i] = c]
    ELSE c

lower(s) == [i \in DOMAIN s |-> lowerChar(s[i])]

\* Character order of the text comparison used by the sort of group keys.
CharOrder ==
    <<"\t", "\n", " ", "-", "0", "1", "2", "3", "4", "5", "6", "7", "8", "9", "<", ">", "@">>
    \o UpperChars \o LowerChars

Ord(c) == CHOOSE i \in DOMAIN CharOrder : CharOrder[i] = c

RECURSIVE LessText(_, _)
LessText(a, b) ==
    IF b = <<>> THEN FALSE
    ELSE IF a = <<>> THEN TRUE
    ELSE IF Head(a) = Head(b) THEN LessText(Tail(a), Tail(b))
    ELSE Ord(Head(a)) < Ord(Head(b))

\* ------------------------------------------------------------ UUID_RE
HexChars ==
    {"0", "1", "2", "3", "4", "5", "6", "7", "8", "9",
     "a", "b", "c", "d", "e", "f", "A", "B", "C", "D", "E", "F"}

UuidGroups == <<8, 4, 4, 4, 12>>

\* s matches  ^ g1 - g2 - ... - gk $  where gi is UuidGroups[i] hex characters
RECURSIVE MatchGroups(_, _)
MatchGroups(s, g) ==
    LET n == Head(g) IN
    /\ Len(s) >= n
    /\ \A i \in 1..n : s[i] \in HexChars
    /\ IF Len(g) = 1
       THEN Len(s) = n
       ELSE /\ Len(s) > n
            /\ s[n + 1] = "-"
            /\ MatchGroups(SubSeq(s, n + 2, Len(s)), Tail(g))

UUID_RE(s) == MatchGroups(s, UuidGroups)

is_valid_uuid(u) == IF isna(u) THEN FALSE ELSE UUID_RE(strip(u))

\* ------------------------------------------------------------ conversions
Digits == <<"0", "1", "2", "3", "4", "5", "6", "7", "8", "9">>

IsDigit(c) == \E i \in DOMAIN Digits : Digits[i] = c

DigitVal(c) == (CHOOSE i \in DOMAIN Digits : Digits[i] = c) - 1

RECURSIVE ParseNat(_)
ParseNat(s) ==
    IF s = <<>> THEN 0
    ELSE 10 * ParseNat(SubSeq(s, 1, Len(s) - 1)) + DigitVal(s[Len(s)])

IsNatText(s) == s # <<>> /\ \A i \in DOMAIN s : IsDigit(s[i])

\* pd.to_datetime(s, utc=True, errors="coerce"): the text of an instant is
\* written here as a decimal number; anything else, and a missing value, is NaT.
to_iso_timestamp(s) ==
    IF isna(s) THEN NaT
    ELSE IF IsNatText(s) THEN ParseNat(s)
    ELSE NaT

clean_email(x) == IF isna(x) THEN x ELSE lower(strip(x))

\* pd.to_numeric(x, errors="coerce") on integer literals with an optional sign.
coerce_numeric(x) ==
    IF isna(x) THEN NaN
    ELSE IF IsNatText(x) THEN ParseNat(x)
    ELSE IF x # <<>> /\ Head(x) \in {"-", "+"} /\ IsNatText(Tail(x))
         THEN IF Head(x) = "-" THEN 0 - ParseNat(Tail(x)) ELSE ParseNat(Tail(x))
    ELSE NaN

\* ------------------------------------------------------------ reading cells
\* read_csv(..., keep_default_na=False, na_values=["", "null", "NaN"])
CrmNaValues == {<<>>, <<"n", "u", "l", "l">>, <<"N", "a", "N">>}

crm_cell(field) == IF field \in CrmNaValues THEN NA ELSE field

\* read_csv(path, sep="|", dtype=str): the default missing-value tokens
TxNaValues ==
    {<<>>, <<"N", "A">>, <<"N", "a", "N">>, <<"n", "a", "n">>,
     <<"n", "u", "l", "l">>, <<"N", "U", "L", "L">>, <<"N", "/", "A">>,
     <<"n", "/", "a">>, <<"<", "N", "A", ">">>}

tx_cell(field) == IF field \in TxNaValues THEN NA ELSE field

\* ------------------------------------------------------------ read_crm
\* The frame after the column clean-up: one record per source row, labelled
\* with its index.  Without an email column every email is missing.
crm_frame(src) ==
    [i \in DOMAIN src.rows |->
        LET r == src.rows[i]
            uuid == crm_cell(r.user_uuid)
        IN [index |-> i - 1,
            user_uuid |-> IF is_valid_uuid(uuid) THEN uuid ELSE NA,
            email |-> IF src.email_col THEN clean_email(crm_cell(r.email)) ELSE NA,
            _lead_ts |-> to_iso_timestamp(crm_cell(r.created_at))]]

\* The sort with the timestamp ascending: the oldest record first.
lead_before_oldest(a, b) ==
    IF a._lead_ts = b._lead_ts THEN a.index < b.index
    ELSE IF a._lead_ts = NaT THEN FALSE
    ELSE IF b._lead_ts = NaT THEN TRUE
    ELSE a._lead_ts < b._lead_ts

\* sort_values(by=["_lead_ts", "_row_order"], ascending=[False, True]):
\* a goes before b.  Missing instants sort last.
lead_before(a, b) ==
    IF a._lead_ts = b._lead_ts THEN a.index < b.index
    ELSE IF a._lead_ts = NaT THEN FALSE
    ELSE IF b._lead_ts = NaT THEN TRUE
    ELSE a._lead_ts > b._lead_ts

Range(s) == {s[i] : i \in DOMAIN s}

RECURSIVE sort_leads(_)
sort_leads(S) ==
    IF S = {} THEN <<>>
    ELSE LET first == CHOOSE a \in S : \A b \in S \ {a} : lead_before(a, b)
         IN <<first>> \o sort_leads(S \ {first})

\* Equality of the subset key of drop_duplicates: missing equals missing.
same_email(a, b) == a.email = b.email

RECURSIVE drop_duplicates(_, _)
drop_duplicates(s, kept) ==
    IF s = <<>> THEN kept
    ELSE IF \E k \in Range(kept) : same_email(k, Head(s))
         THEN drop_duplicates(Tail(s), kept)
         ELSE drop_duplicates(Tail(s), Append(kept, Head(s)))

read_crm(src) == drop_duplicates(sort_leads(Range(crm_frame(src))), <<>>)

\* ------------------------------------------------------------ aggregation
RECURSIVE SumSeq(_)
SumSeq(s) == IF s = <<>> THEN 0 ELSE Head(s) + SumSeq(Tail(s))

\* max of a column of instants, missing instants skipped
max_ts(s) ==
    LET T == {s[i] : i \in DOMAIN s} \ {NaT}
    IN IF T = {} THEN NaT ELSE CHOOSE t \in T : \A u \in T : u <= t

\* groupby(key): the distinct non-missing keys, sorted
RECURSIVE sort_keys(_)
sort_keys(K) ==
    IF K = {} THEN <<>>
    ELSE LET first == CHOOSE a \in K : \A b \in K \ {a} : LessText(a, b)
         IN <<first>> \o sort_keys(K \ {first})

\* No grouping: one key per row.
group_keys_per_row(df) ==
    LET rows == SelectSeq(df, LAMBDA r : ~isna(r.user_uuid))
    IN [i \in DOMAIN rows |-> rows[i].user_uuid]

group_keys(df) == sort_keys({df[i].user_uuid : i \in DOMAIN df} \ {NA})

group_rows(df, k) == SelectSeq(df, LAMBDA r : r.user_uuid = k)

\* ------------------------------------------------------------ read_web
ABSENT == <<"ABSENT">>

\* json.loads: a line that is not JSON raises JSONDecodeError and is skipped;
\* every line that is JSON, an object or not, is appended to records.
web_records(lines) == SelectSeq(lines, LAMBDA l : l.kind \in {"object", "scalar"})

has_column(records, c) ==
    \E i \in DOMAIN records : records[i].kind = "object" /\ records[i][c] # ABSENT

\* pd.DataFrame(records) with a record that is no object has no text column
\* labels (c.lower() raises); df.get(column, scalar) of an absent column is
\* the scalar, which has neither fillna nor apply.
web_raises(lines) ==
    LET records == web_records(lines) IN
    /\ records # <<>>
    /\ \/ \E i \in DOMAIN records : records[i].kind # "object"
       \/ ~has_column(records, "page_view_count")
       \/ ~has_column(records, "last_seen_ts")

json_cell(v) == IF v = ABSENT THEN NA ELSE v

web_uuid(x) == IF is_valid_uuid(x) THEN x ELSE NA

fillna0(v) == IF v = NaN THEN 0 ELSE v

web_frame(records) ==
    LET df == [i \in DOMAIN records |->
                 [user_uuid |-> web_uuid(json_cell(records[i].user_uuid)),
                  page_view_count |->
                      fillna0(coerce_numeric(json_cell(records[i].page_view_count))),
                  last_seen_ts |-> to_iso_timestamp(json_cell(records[i].last_seen_ts))]]
    IN SelectSeq(df, LAMBDA r : ~isna(r.user_uuid))

web_summary(df) ==
    LET keys == group_keys(df) IN
    [n \in DOMAIN keys |->
        LET g == group_rows(df, keys[n]) IN
        [user_uuid |-> keys[n],
         total_page_views |-> SumSeq([i \in DOMAIN g |-> g[i].page_view_count]),
         last_seen_ts |-> max_ts([i \in DOMAIN g |-> g[i].last_seen_ts])]]

read_web(lines) ==
    IF web_records(lines) = <<>> THEN <<>> ELSE web_summary(web_frame(web_records(lines)))

\* ------------------------------------------------------------ read_transactions
Completed == <<"c", "o", "m", "p", "l", "e", "t", "e", "d">>

Missing == <<"<", "m", "i", "s", "s", "i", "n", "g", ">">>

tx_frame(rows) ==
    [i \in DOMAIN rows |->
        LET r == rows[i]
            st == tx_cell(r.status)
        IN [transaction_id |-> tx_cell(r.transaction_id),
            user_uuid |-> tx_cell(r.user_uuid),
            amount |-> coerce_numeric(tx_cell(r.amount)),
            status |-> IF isna(st) THEN NA ELSE strip(lower(st)),
            timestamp |-> to_iso_timestamp(tx_cell(r.timestamp))]]

bad_uuid(r) == ~is_valid_uuid(r.user_uuid)

non_positive(r) == ~(r.amount # NaN /\ r.amount > 0)

bad_status(r) == r.status # Completed

tid_or_missing(r) == IF isna(r.transaction_id) THEN Missing ELSE r.transaction_id

\* one record per row of df.loc[mask, "transaction_id"]
rejections(bad, reason) ==
    [i \in DOMAIN bad |-> [transaction_id |-> tid_or_missing(bad[i]), reason |-> reason]]

\* Short-circuited checks: a row is logged under its first failed check only.
tx_reasons_first_failure(df) ==
    rejections(SelectSeq(df, bad_uuid), "INVALID_UUID")
    \o rejections(SelectSeq(df, LAMBDA r : ~bad_uuid(r) /\ non_positive(r)),
                  "NON_POSITIVE_AMOUNT")
    \o rejections(SelectSeq(df, LAMBDA r : ~bad_uuid(r) /\ ~non_positive(r) /\ bad_status(r)),
                  "INVALID_STATUS")

tx_reasons(df) ==
    rejections(SelectSeq(df, bad_uuid), "INVALID_UUID")
    \o rejections(SelectSeq(df, non_positive), "NON_POSITIVE_AMOUNT")
    \o rejections(SelectSeq(df, bad_status), "INVALID_STATUS")

\* The filter without the amount check.
is_rejected_ignoring_amount(r) == bad_uuid(r) \/ bad_status(r)

is_rejected(r) == bad_uuid(r) \/ non_positive(r) \/ bad_status(r)

df_valid(df) == SelectSeq(df, LAMBDA r : ~is_rejected(r))

\* agg(("transaction_id", "count")): the number of non-missing values
count_tid(g) == Len(SelectSeq(g, LAMBDA r : ~isna(r.transaction_id)))

tx_summary(df) ==
    LET keys == group_keys(df) IN
    [n \in DOMAIN keys |->
        LET g == group_rows(df, keys[n]) IN
        [user_uuid |-> keys[n],
         total_spent |-> SumSeq([i \in DOMAIN g |-> g[i].amount]),
         transactions_count |-> count_tid(g),
         last_transaction_ts |-> max_ts([i \in DOMAIN g |-> g[i].timestamp])]]

read_transactions(rows) ==
    [tx |-> tx_summary(df_valid(tx_frame(rows))), reasons |-> tx_reasons(tx_frame(rows))]

\* ------------------------------------------------------------ merge
RECURSIVE Flatten(_)
Flatten(ss) == IF ss = <<>> THEN <<>> ELSE Head(ss) \o Flatten(Tail(ss))

with_web(l, views, seen) ==
    [user_uuid |-> l.user_uuid, email |-> l.email, _lead_ts |-> l._lead_ts,
     total_page_views |-> views, last_seen_ts |-> seen]

with_tx(l, spent, count, last) ==
    [user_uuid |-> l.user_uuid, email |-> l.email, _lead_ts |-> l._lead_ts,
     total_page_views |-> l.total_page_views, last_seen_ts |-> l.last_seen_ts,
     total_spent |-> spent, transactions_count |-> count, last_transaction_ts |-> last]

\* DataFrame.merge(right, on="user_uuid", how="left"): the right rows whose
\* key equals the left row's (a missing key equals a missing key)
matching(right, l) == SelectSeq(right, LAMBDA r : r.user_uuid = l.user_uuid)

\* Every left row, in order, once per matching right row, or once with
\* missing right columns when there is none.
merge_web(left, right) ==
    Flatten([i \in DOMAIN left |->
        LET m == matching(right, left[i])
        IN IF m = <<>> THEN <<with_web(left[i], NaN, NaT)>>
           ELSE [j \in DOMAIN m |->
                    with_web(left[i], m[j].total_page_views, m[j].last_seen_ts)]])

merge_tx(left, right) ==
    Flatten([i \in DOMAIN left |->
        LET m == matching(right, left[i])
        IN IF m = <<>> THEN <<with_tx(left[i], NaN, NaN, NaT)>>
           ELSE [j \in DOMAIN m |->
                    with_tx(left[i], m[j].total_spent, m[j].transactions_count,
                            m[j].last_transaction_ts)]])

merge_all(leads, activity, transactions) ==
    merge_tx(merge_web(leads, activity), transactions)

\* No fill: a missing metric stays missing.
fill_value_kept(v) == v

\* fillna(0) of the three numeric columns
fill_value(v) == IF v = NaN THEN 0 ELSE v

fill_defaults(m) ==
    [i \in DOMAIN m |->
        [m[i] EXCEPT !.total_page_views = fill_value(@),
                     !.transactions_count = fill_value(@),
                     !.total_spent = fill_value(@)]]

\* ------------------------------------------------------------ main
VARIABLES crmIn, webIn, txIn, pc, err, crm, web, tx, reasons, merged, outputs

vars == <<crmIn, webIn, txIn, pc, err, crm, web, tx, reasons, merged, outputs>>

inputs == <<crmIn, webIn, txIn>>

\* crm = read_crm(crm_path); an unreadable source raises
ReadCrm ==
    /\ pc = "read_crm"
    /\ crm' = read_crm(crmIn)
    /\ pc' = "read_web"
    /\ UNCHANGED <<inputs, err, web, tx, reasons, merged, outputs>>

ReadCrmRaises ==
    /\ pc = "read_crm"
    /\ pc' = "aborted"
    /\ err' = "read_crm"
    /\ UNCHANGED <<inputs, crm, web, tx, reasons, merged, outputs>>

\* web = read_web(web_path)
ReadWeb ==
    /\ pc = "read_web"
    /\ ~web_raises(webIn)
    /\ web' = read_web(webIn)
    /\ pc' = "read_transactions"
    /\ UNCHANGED <<inputs, err, crm, tx, reasons, merged, outputs>>

ReadWebRaises ==
    /\ pc = "read_web"
    /\ pc' = "aborted"
    /\ err' = "read_web"
    /\ UNCHANGED <<inputs, crm, web, tx, reasons, merged, outputs>>

\* tx, reasons = read_transactions(tx_path)
ReadTransactions ==
    /\ pc = "read_transactions"
    /\ tx' = read_transactions(txIn).tx
    /\ reasons' = read_transactions(txIn).reasons
    /\ pc' = "merge"
    /\ UNCHANGED <<inputs, err, crm, web, merged, outputs>>

\* The failure caught and the run carried on without transactions.
ReadTransactionsSwallowed ==
    /\ pc = "read_transactions"
    /\ pc' = "merge"
    /\ err' = "read_transactions"
    /\ UNCHANGED <<inputs, crm, web, tx, reasons, merged, outputs>>

ReadTransactionsRaises ==
    /\ pc = "read_transactions"
    /\ pc' = "aborted"
    /\ err' = "read_transactions"
    /\ UNCHANGED <<inputs, crm, web, tx, reasons, merged, outputs>>

\* merged = crm.merge(web).merge(tx), then the default fill
Merge ==
    /\ pc = "merge"
    /\ merged' = fill_defaults(merge_all(crm, web, tx))
    /\ pc' = "write_output"
    /\ UNCHANGED <<inputs, err, crm, web, tx, reasons, outputs>>

\* write_output: Parquet, or the CSV fallback when to_parquet raises
WriteOutput ==
    /\ pc = "write_output"
    /\ \/ outputs' = outputs \cup {"customer_360.parquet"}
       \/ outputs' = outputs \cup {"customer_360.csv"}
    /\ pc' = "write_reject_log"
    /\ UNCHANGED <<inputs, err, crm, web, tx, reasons, merged>>

WriteRejectLog ==
    /\ pc = "write_reject_log"
    /\ outputs' = outputs \cup {"rejected_transactions.log"}
    /\ pc' = "write_readme"
    /\ UNCHANGED <<inputs, err, crm, web, tx, reasons, merged>>

WriteReadme ==
    /\ pc = "write_readme"
    /\ outputs' = outputs \cup {"README.md"}
    /\ pc' = "done"
    /\ UNCHANGED <<inputs, err, crm, web, tx, reasons, merged>>

Next ==
    \/ ReadCrm
    \/ ReadCrmRaises
    \/ ReadWeb
    \/ ReadWebRaises
    \/ ReadTransactions
    \/ ReadTransactionsRaises
    \/ Merge
    \/ WriteOutput
    \/ WriteRejectLog
    \/ WriteReadme

\* ------------------------------------------------------------ inputs
SeqsUpTo(S, n) == UNION {[1..k -> S] : k \in 0..n}

Uuid(c) ==
    Rep(c, 8) \o <<"-">> \o Rep(c, 4) \o <<"-">> \o Rep(c, 4) \o <<"-">>
    \o Rep(c, 4) \o <<"-">> \o Rep(c, 12)

U1 == Uuid("a")

U2 == Uuid("7")

NotUuid == <<"u", "-", "1">>

\* Identity texts: well-formed in either letter case, and malformed in length,
\* in grouping and in characters.
UuidBodies ==
    {U1, U2, Uuid("F"),
     Rep("0", 8) \o <<"-">> \o Rep("c", 4) \o <<"-">> \o Rep("D", 4) \o <<"-">>
         \o Rep("9", 4) \o <<"-">> \o Rep("e", 12),
     SubSeq(U1, 1, 35),
     U1 \o <<"a">>,
     Rep("a", 4) \o <<"-">> \o Rep("a", 8) \o <<"-">> \o Rep("a", 4) \o <<"-">>
         \o Rep("a", 4) \o <<"-">> \o Rep("a", 12),
     Rep("a", 32),
     <<"g">> \o Tail(U1),
     Rep("a", 8) \o <<" ">> \o SubSeq(U1, 10, 36),
     Uuid("G"),
     NotUuid,
     <<>>}

Padded(S) ==
    {Rep(" ", l) \o b \o Rep(" ", r) : b \in S, l \in 0..MaxPad, r \in 0..MaxPad}
    \cup {<<"\t">> \o b \o <<"\n">> : b \in S}

Lead(u, e, t) == [user_uuid |-> u, email |-> e, created_at |-> t]

Line(k, u, n, t) == [kind |-> k, user_uuid |-> u, page_view_count |-> n, last_seen_ts |-> t]

Trans(i, u, a, s, t) ==
    [transaction_id |-> i, user_uuid |-> u, amount |-> a, status |-> s, timestamp |-> t]

BlankLine == Line("blank", ABSENT, ABSENT, ABSENT)

InvalidLine == Line("invalid", ABSENT, ABSENT, ABSENT)

ScalarLine == Line("scalar", ABSENT, ABSENT, ABSENT)

StatusCompleted == <<"C", "o", "m", "p", "l", "e", "t", "e", "d">>

StatusPadded == <<" ", "C", "O", "M", "P", "L", "E", "T", "E", "D", " ">>

StatusPending == <<"p", "e", "n", "d", "i", "n", "g">>

\* one source of each kind, used where a specification varies another source
SomeLeads ==
    [email_col |-> TRUE,
     rows |-> <<Lead(U1, <<"a">>, <<"1">>), Lead(U2, <<"b">>, <<"2">>)>>]

SomeLines == <<Line("object", U1, <<"3">>, <<"2">>), InvalidLine>>

SomeTx ==
    <<Trans(<<"t", "1">>, U1, <<"5">>, StatusCompleted, <<"3">>),
      Trans(<<"t", "2">>, U2, <<"-", "5">>, StatusCompleted, <<"4">>)>>

Start ==
    /\ pc = "read_crm"
    /\ err = "none"
    /\ crm = <<>>
    /\ web = <<>>
    /\ tx = <<>>
    /\ reasons = <<>>
    /\ merged = <<>>
    /\ outputs = {}

\* The whole run: every source varies.
MainLeadRows == {Lead(u, e, <<"1">>) : u \in {<<>>, U1, U2}, e \in {<<"a">>, <<"b">>}}

MainWebFiles ==
    {<<>>,
     <<InvalidLine>>,
     <<Line("object", U1, <<"3">>, <<"2">>)>>,
     <<Line("object", U1, <<"3">>, <<"2">>), InvalidLine,
       Line("object", U2, <<"a", "b", "c">>, ABSENT)>>}

MainTxRows ==
    {Trans(<<"t", "1">>, U1, <<"5">>, StatusCompleted, <<"3">>),
     Trans(<<>>, U1, <<"2">>, StatusPadded, <<"x">>),
     Trans(<<"t", "3">>, U2, <<"-", "5">>, StatusCompleted, <<"1">>)}

Init ==
    /\ crmIn \in [email_col : {TRUE}, rows : SeqsUpTo(MainLeadRows, MaxRows)]
    /\ webIn \in MainWebFiles
    /\ txIn \in SeqsUpTo(MainTxRows, MaxRows)
    /\ Start

Spec == Init /\ [][Next]_vars

\* The lead source varies.
CrmEmails == {<<>>, <<"a", "@", "x">>, <<" ", "A", "@", "X">>}

CrmLeadRows ==
    {Lead(U1, e, t) : e \in CrmEmails, t \in {<<"n", "u", "l", "l">>, <<"1">>, <<"2">>}}
    \cup {Lead(U2, <<"b">>, <<"1">>)}

NoEmailRows == {Lead(U1, <<>>, t) : t \in {<<>>, <<"1">>, <<"2">>}}

InitCrm ==
    /\ \/ crmIn \in [email_col : {TRUE}, rows : SeqsUpTo(CrmLeadRows, MaxLeads)]
       \/ crmIn \in [email_col : {FALSE}, rows : SeqsUpTo(NoEmailRows, MaxLeads)]
    /\ webIn = SomeLines
    /\ txIn = SomeTx
    /\ Start

SpecCrm == InitCrm /\ [][Next]_vars

\* The activity source varies.
WebLines ==
    {BlankLine, InvalidLine, ScalarLine}
    \cup {Line("object", u, n, t) :
            u \in {U1, U2, NotUuid},
            n \in {<<"3">>, <<"a", "b", "c">>, ABSENT},
            t \in {<<"2">>, ABSENT}}

InitWeb ==
    /\ crmIn = SomeLeads
    /\ webIn \in SeqsUpTo(WebLines, MaxLines)
    /\ txIn = SomeTx
    /\ Start

SpecWeb == InitWeb /\ [][Next]_vars

\* The transaction source varies.
TxRows ==
    {Trans(i, u, a, s, <<"1">>) :
        i \in {<<>>, <<"t", "1">>},
        u \in {U1, NotUuid},
        a \in {<<"-", "5">>, <<"3">>, <<"a", "b", "c">>},
        s \in {StatusCompleted, StatusPending}}
    \cup {Trans(<<"t", "2">>, <<" ">> \o U1, a, StatusPadded, <<"2">>) :
            a \in {<<"-", "5">>, <<"3">>}}

InitTx ==
    /\ crmIn = SomeLeads
    /\ webIn = SomeLines
    /\ txIn \in SeqsUpTo(TxRows, MaxTx)
    /\ Start

SpecTx == InitTx /\ [][Next]_vars

\* The identity text varies, in the lead source and in the activity source.
InitUuid ==
    /\ \E u \in Padded(UuidBodies) :
         crmIn = [email_col |-> TRUE, rows |-> <<Lead(u, <<"a">>, <<"1">>)>>]
    /\ \E u \in {U1, <<" ">> \o U1} :
         webIn = <<Line("object", u, <<"3">>, <<"2">>)>>
    /\ txIn = SomeTx
    /\ Start

SpecUuid == InitUuid /\ [][Next]_vars

\* ------------------------------------------------------------ properties
HasCrm == pc # "read_crm" /\ err # "read_crm"

HasWeb == pc \notin {"read_crm", "read_web"} /\ err \notin {"read_crm", "read_web"}

HasTx == pc \in {"merge", "write_output", "write_reject_log", "write_readme", "done"}

HasMerged == pc \in {"write_output", "write_reject_log", "write_readme", "done"}

LeadPart(r) == [user_uuid |-> r.user_uuid, email |-> r.email, _lead_ts |-> r._lead_ts]

\* C1: merge completeness.  The final merged output holds every row of the
\* Lead Record table exactly once, in the table's order: no lead row is
\* dropped and none is duplicated, whatever its identity matches.
C1_MergeCompleteness ==
    HasMerged =>
        [i \in DOMAIN merged |-> LeadPart(merged[i])] = [i \in DOMAIN crm |-> LeadPart(crm[i])]

\* A run that merged two leads, one with a missing identity and one whose
\* identity is in both summaries.
C1_Witness ==
    /\ pc = "done"
    /\ Len(crm) = 2
    /\ \E i \in DOMAIN crm : isna(crm[i].user_uuid)
    /\ \E i \in DOMAIN crm :
         /\ \E w \in Range(web) : w.user_uuid = crm[i].user_uuid
         /\ \E t \in Range(tx) : t.user_uuid = crm[i].user_uuid
    /\ Len(merged) = 2

\* C6: default fill.  In the final output a lead whose identity is missing
\* or in no Activity Summary row has total_page_views = 0 and no last_seen;
\* one whose identity is missing or in no Transaction Summary row has
\* transactions_count = 0, total_spent = 0 and no last_transaction; no
\* summary row has a missing identity.
C6_DefaultFill ==
    HasMerged =>
        /\ \A w \in Range(web) : ~isna(w.user_uuid)
        /\ \A t \in Range(tx) : ~isna(t.user_uuid)
        /\ \A i \in DOMAIN merged :
             LET m == merged[i] IN
             /\ (isna(m.user_uuid) \/ ~\E w \in Range(web) : w.user_uuid = m.user_uuid)
                  => m.total_page_views = 0 /\ m.last_seen_ts = NaT
             /\ (isna(m.user_uuid) \/ ~\E t \in Range(tx) : t.user_uuid = m.user_uuid)
                  => /\ m.transactions_count = 0
                     /\ m.total_spent = 0
                     /\ m.last_transaction_ts = NaT

\* A finished run with an empty Activity Summary, a lead with a missing
\* identity and a lead whose valid identity is in no Transaction Summary row.
C6_Witness ==
    /\ pc = "done"
    /\ web = <<>>
    /\ tx # <<>>
    /\ \E i \in DOMAIN merged : isna(merged[i].user_uuid)
    /\ \E i \in DOMAIN merged :
         /\ ~isna(merged[i].user_uuid)
         /\ ~\E t \in Range(tx) : t.user_uuid = merged[i].user_uuid

\* C5: fail fast, no partial output.  A run in which reading a source failed
\* has written no artifact, and an artifact is written only after the three
\* normalizers and the merge have completed.
C5_NoPartialOutput ==
    /\ err # "none" => outputs = {}
    /\ outputs # {} => HasMerged /\ pc # "write_output"
    /\ pc \in {"read_crm", "read_web", "read_transactions", "merge", "write_output"}
         => outputs = {}

\* The activity source failed after the lead source had been read.
C5_Witness ==
    /\ pc = "aborted"
    /\ err = "read_web"
    /\ crm # <<>>
    /\ outputs = {}

\* The lead source as read, before any clean-up of read_crm.
RawEmail(i) ==
    IF crmIn.email_col THEN crm_cell(crmIn.rows[i + 1].email) ELSE NA

LeadEmail(i) == IF isna(RawEmail(i)) THEN NA ELSE lower(strip(RawEmail(i)))

LeadTs(i) == to_iso_timestamp(crm_cell(crmIn.rows[i + 1].created_at))

LeadIndexes == {i - 1 : i \in DOMAIN crmIn.rows}

Kept == {crm[k].index : k \in DOMAIN crm}

\* C4: lead deduplication.  Of two lead rows with the same normalized,
\* non-missing email only the one with the later lead timestamp is retained,
\* and with equal timestamps the one with the smaller row index; every
\* non-missing email of the source is on exactly one output row.
C4_LeadDedup ==
    HasCrm =>
        /\ \A k \in DOMAIN crm :
             /\ crm[k].index \in LeadIndexes
             /\ crm[k].email = LeadEmail(crm[k].index)
             /\ crm[k]._lead_ts = LeadTs(crm[k].index)
        /\ \A i, j \in LeadIndexes :
             (i # j /\ ~isna(LeadEmail(i)) /\ LeadEmail(i) = LeadEmail(j)) =>
                 /\ (LeadTs(i) # NaT /\ LeadTs(j) # NaT /\ LeadTs(i) > LeadTs(j)) => j \notin Kept
                 /\ (LeadTs(i) = LeadTs(j) /\ i < j) => j \notin Kept
        /\ \A i \in LeadIndexes :
             ~isna(LeadEmail(i)) =>
                 Cardinality({k \in DOMAIN crm : crm[k].email = LeadEmail(i)}) = 1

\* Three rows of one email written in two ways: the latest is the last row,
\* and the two earlier rows have equal timestamps.
C4_Witness ==
    /\ pc = "read_web"
    /\ Len(crmIn.rows) = 3
    /\ RawEmail(0) # RawEmail(2)
    /\ LeadEmail(0) = LeadEmail(2) /\ LeadEmail(1) = LeadEmail(2) /\ ~isna(LeadEmail(0))
    /\ LeadTs(0) = LeadTs(1) /\ LeadTs(0) # NaT /\ LeadTs(2) > LeadTs(0)
    /\ Kept = {2}

\* C9: rows with a missing email are not deduplicated against each other:
\* all of them are in the output of read_crm.
C9_MissingEmailKept ==
    HasCrm =>
        Cardinality({k \in DOMAIN crm : isna(crm[k].email)})
            = Cardinality({i \in LeadIndexes : isna(LeadEmail(i))})

\* The three checks of a transaction row, on the row as read.
FailsUuid(row) ==
    LET u == tx_cell(row.user_uuid) IN isna(u) \/ ~UUID_RE(strip(u))

FailsAmount(row) ==
    LET a == coerce_numeric(tx_cell(row.amount)) IN a = NaN \/ a <= 0

FailsStatus(row) ==
    LET st == tx_cell(row.status) IN isna(st) \/ strip(lower(st)) # Completed

Accepted(row) == ~FailsUuid(row) /\ ~FailsAmount(row) /\ ~FailsStatus(row)

FailCount(row) ==
    (IF FailsUuid(row) THEN 1 ELSE 0) + (IF FailsAmount(row) THEN 1 ELSE 0)
    + (IF FailsStatus(row) THEN 1 ELSE 0)

LoggedId(row) ==
    IF isna(tx_cell(row.transaction_id)) THEN Missing ELSE tx_cell(row.transaction_id)

\* the transaction ids the rejection log holds under one reason, in order
LoggedUnder(reason) ==
    LET rs == SelectSeq(reasons, LAMBDA r : r.reason = reason)
    IN [i \in DOMAIN rs |-> rs[i].transaction_id]

\* the transaction ids of the rows failing one check, in source order
FailingIds(rs) == [i \in DOMAIN rs |-> LoggedId(rs[i])]

\* C2: independent rejection checks.  Under each of the three reasons the
\* rejection records name exactly the rows failing that check, one record
\* per row, so a row failing k checks has k records and a row passing a
\* check has none under it.
C2_IndependentChecks ==
    HasTx =>
        /\ LoggedUnder("INVALID_UUID") = FailingIds(SelectSeq(txIn, FailsUuid))
        /\ LoggedUnder("NON_POSITIVE_AMOUNT") = FailingIds(SelectSeq(txIn, FailsAmount))
        /\ LoggedUnder("INVALID_STATUS") = FailingIds(SelectSeq(txIn, FailsStatus))
        /\ Len(reasons) = SumSeq([i \in DOMAIN txIn |-> FailCount(txIn[i])])

\* One row fails the three checks; another has amount -5, status
\* "Completed" and a valid identity and is logged once, for its amount.
C2_Witness ==
    /\ pc = "merge"
    /\ Len(txIn) = 2
    /\ FailCount(txIn[1]) = 3
    /\ txIn[2].amount = <<"-", "5">> /\ txIn[2].status = StatusCompleted /\ txIn[2].user_uuid = U1
    /\ FailCount(txIn[2]) = 1
    /\ Len(reasons) = 4
    /\ reasons[3].reason = "NON_POSITIVE_AMOUNT" /\ reasons[4].reason = "INVALID_STATUS"

AcceptedRows(k) ==
    SelectSeq(txIn, LAMBDA row : Accepted(row) /\ tx_cell(row.user_uuid) = k)

AmountOf(row) == coerce_numeric(tx_cell(row.amount))

\* C3: total_spent.  The Transaction Summary has one row per identity of an
\* accepted row, and its total_spent is the sum of the amounts of the accepted
\* rows of that identity; a row with a rejection record adds to no total.
C3_TotalSpent ==
    HasTx =>
        /\ {t.user_uuid : t \in Range(tx)}
             = {tx_cell(txIn[i].user_uuid) : i \in {j \in DOMAIN txIn : Accepted(txIn[j])}}
        /\ Cardinality({t.user_uuid : t \in Range(tx)}) = Len(tx)
        /\ \A t \in Range(tx) :
             t.total_spent
                 = SumSeq([i \in DOMAIN AcceptedRows(t.user_uuid) |->
                              AmountOf(AcceptedRows(t.user_uuid)[i])])

\* An accepted row and a rejected row of the same identity: the total is
\* the accepted amount alone.
C3_Witness ==
    /\ pc = "merge"
    /\ Len(txIn) = 2
    /\ txIn[1].user_uuid = txIn[2].user_uuid
    /\ Accepted(txIn[1]) /\ ~Accepted(txIn[2])
    /\ AmountOf(txIn[2]) # NaN
    /\ Len(tx) = 1
    /\ tx[1].total_spent = AmountOf(txIn[1])
    /\ reasons # <<>>

\* C8: transactions_count is the number of accepted rows of the identity, a
\* positive integer, also when accepted rows have no transaction_id.
C8_TransactionsCount ==
    HasTx =>
        \A t \in Range(tx) :
            /\ t.transactions_count = Len(AcceptedRows(t.user_uuid))
            /\ t.transactions_count > 0

ObjectLines == SelectSeq(webIn, LAMBDA l : l.kind = "object")

\* C10: malformed activity lines never abort the run.  Every line that is
\* not a JSON object, invalid JSON or a JSON value of another kind, is
\* skipped: read_web completes whenever it would on the object lines alone,
\* and returns the summary of the object lines.
C10_MalformedLinesSkipped ==
    /\ (pc = "read_web" /\ ~web_raises(ObjectLines)) => ENABLED ReadWeb
    /\ HasWeb => web = read_web(ObjectLines)

\* The identity text retained for a raw value: trimmed when the trimmed
\* text has the UUID shape, missing otherwise.
TrimmedIdentity(raw) ==
    IF ~isna(raw) /\ UUID_RE(strip(raw)) THEN strip(raw) ELSE NA

\* C7: identity validation.  The identity a normalizer retains is the
\* trimmed raw value when that has the UUID shape and missing otherwise, so
\* the keys of the lead table and of the Activity Summary are trimmed.
C7_IdentityValidation ==
    /\ HasCrm =>
         \A k \in DOMAIN crm :
             crm[k].user_uuid
                 = TrimmedIdentity(crm_cell(crmIn.rows[crm[k].index + 1].user_uuid))
    /\ HasWeb =>
         {w.user_uuid : w \in Range(web)}
             = {TrimmedIdentity(json_cell(l.user_uuid)) : l \in Range(ObjectLines)} \ {NA}

====
